---- MODULE Spec2Model ----
(***************************************************************************)
(* Model of serpentTools/tests/utils.py (LoggerMixin and                   *)
(* TestCaseWithLogCapture) and of the pure helpers of                      *)
(* serpentTools/utils/core.py (str2vec, splitValsUncs,                     *)
(* convertVariableName, deconvertVariableName).                            *)
(*                                                                         *)
(* Python lists are objects: `self.__old = __logger__.handlers` binds a    *)
(* second name to the logger's own list, so the list objects live in a     *)
(* small heap and __old is a reference into it.  Strings are sequences of  *)
(* one-character strings.                                                  *)
(***************************************************************************)
EXTENDS Integers, Sequences, FiniteSets, TLC

\* ------------------------------------------------------------------ bounds
MaxPre == 3      \* handlers registered on the logger before the first attach
MaxAttach == 2   \* capturing handlers created in one run
MaxLog == 2      \* messages captured by one capturing handler
MaxLevel == 2    \* severity levels 1..MaxLevel

NOTSET == 0

Levels == 1 .. MaxLevel
Messages == { <<"a">>, <<"a", "b">> }
Queries == Messages \cup { <<>>, <<"b">> }
\* levels handed to attach(): the default, and one that filters the lower levels
AttachLevels == {NOTSET, MaxLevel}

\* ----------------------------------------------------------------- records
\* self.handler = None
None == [kind |-> "none", id |-> 0, level |-> 0]

\* a handler registered on the logger by somebody else
OldHandler(i) == [kind |-> "old", id |-> i, level |-> NOTSET]

\* DictHandler(level): a new handler object with an empty logMessages dict
DictHandler(i, level) == [kind |-> "cap", id |-> i, level |-> level]

\* a call of the mixin: its arguments, the number of attach() calls since the
\* last detach() when it was made, and how it ended
Call(op, level, msg, partial, depth, result) ==
  [level |-> level, op |-> op, msg |-> msg, partial |-> partial,
   depth |-> depth, result |-> result]

\* an array element of dtype str or float
StrElem(tok) == [kind |-> "str", num |-> 0, str |-> tok]
NumElem(num) == [kind |-> "float", num |-> num, str |-> <<>>]

\* an array, or the error raised instead of building it
Array(err, data) == [err |-> err, data |-> data]

\* what splitValsUncs is handed: a list or an ndarray of one or two
\* dimensions, or a string
Iterable(kind, ndim, data) == [kind |-> kind, data |-> data, ndim |-> ndim]

\* what splitValsUncs returns; view: the outputs alias the input's storage
Split(err, vals, uncs, view) ==
  [err |-> err, vals |-> vals, uncs |-> uncs, view |-> view]

EmptyDict == [l \in {} |-> <<>>]

VARIABLES
  heap,         \* the list objects: heap.logger is __logger__.handlers,
                \* heap.own the list `[]` made by __init__ / detach
  old,          \* self.__old: which list object it refers to
  handler,      \* self.handler
  ncap,         \* number of DictHandler objects created so far
  logMessages,  \* logMessages of the most recently created DictHandler
  pre,          \* history: the logger's handlers when the cycle's first attach began
  nattach,      \* history: attach() calls since the last successful detach()
  paired,       \* history: no attach() was ever called while attached
  captured,     \* history: the log calls since the latest attach() that were made
                \* while attached at or above the attached handler's level
  everLogged,   \* history: some message was logged so far
  call,         \* history: the last call and how it ended
  fn, arg, ret  \* last call of a function of utils/core.py

mixinVars == <<heap, old, handler, ncap, logMessages, pre, nattach, paired,
              captured, everLogged, call>>
coreVars == <<fn, arg, ret>>
vars == <<heap, old, handler, ncap, logMessages, pre, nattach, paired,
          captured, everLogged, call, fn, arg, ret>>

\* ------------------------------------------------- logger (messages module)
Contains(s, x) == \E i \in 1 .. Len(s) : s[i] = x

RECURSIVE RemoveFirst(_, _)
RemoveFirst(s, x) ==
  IF s = <<>> THEN <<>>
  ELSE IF Head(s) = x THEN Tail(s)
  ELSE <<Head(s)>> \o RemoveFirst(Tail(s), x)

\* removeHandler(h): the logger drops h from its handler list, in place
removeHandler(hp, h) == [hp EXCEPT !.logger = RemoveFirst(@, h)]

\* addHandler(h): the logger appends h to its handler list unless it is there
addHandler(hp, h) ==
  IF Contains(hp.logger, h) THEN hp
  ELSE [hp EXCEPT !.logger = Append(@, h)]

\* ------------------------------------------------------------- LoggerMixin
\* for handler in self.__old: removeHandler(handler)
\* The list iterator reads index i of the list object `ref` as it is now.
RECURSIVE ForRemove(_, _, _)
ForRemove(hp, ref, i) ==
  IF i >= Len(hp[ref]) THEN hp
  ELSE ForRemove(removeHandler(hp, hp[ref][i + 1]), ref, i + 1)

\* for handler in self.__old: addHandler(handler)
RECURSIVE ForAdd(_, _, _)
ForAdd(hp, ref, i) ==
  IF i >= Len(hp[ref]) THEN hp
  ELSE ForAdd(addHandler(hp, hp[ref][i + 1]), ref, i + 1)

\* self.__old = __logger__.handlers
BindOld == "logger"

\* faulty variant of attach: the capturing handler's logMessages dict is carried over
attachKeepsLogs(level) ==
  /\ ncap < MaxAttach
  /\ LET h == DictHandler(ncap + 1, level)
     IN /\ handler' = h
        /\ logMessages' = logMessages
        /\ ncap' = ncap + 1
        /\ old' = BindOld
        /\ heap' = addHandler(ForRemove(heap, BindOld, 0), h)
  /\ pre' = IF handler = None THEN heap.logger ELSE pre
  /\ nattach' = nattach + 1
  /\ paired' = (paired /\ handler = None)
  /\ captured' = <<>>
  /\ call' = Call("attach", level, <<>>, FALSE, nattach, "ok")
  /\ UNCHANGED everLogged
  /\ UNCHANGED coreVars

attach(level) ==
  /\ ncap < MaxAttach
  /\ LET h == DictHandler(ncap + 1, level)
     IN /\ handler' = h
        /\ logMessages' = EmptyDict
        /\ ncap' = ncap + 1
        /\ old' = BindOld
        /\ heap' = addHandler(ForRemove(heap, BindOld, 0), h)
  /\ pre' = IF handler = None THEN heap.logger ELSE pre
  /\ nattach' = nattach + 1
  /\ paired' = (paired /\ handler = None)
  /\ captured' = <<>>
  /\ call' = Call("attach", level, <<>>, FALSE, nattach, "ok")
  /\ UNCHANGED everLogged
  /\ UNCHANGED coreVars

\* faulty variant of DetachGuard: detach() without the `handler is None` check
DetachGuardNever == FALSE

DetachGuard == handler = None

detach ==
  /\ IF DetachGuard
       THEN /\ call' = Call("detach", 0, <<>>, FALSE, nattach, "AttributeError")
            /\ UNCHANGED <<heap, old, handler, nattach>>
       ELSE /\ heap' = [ForAdd(removeHandler(heap, handler), old, 0)
                          EXCEPT !.own = <<>>]
            /\ handler' = None
            /\ old' = "own"
            /\ nattach' = 0
            /\ call' = Call("detach", 0, <<>>, FALSE, nattach, "ok")
  /\ UNCHANGED <<ncap, logMessages, pre, paired, captured, everLogged>>
  /\ UNCHANGED coreVars

\* msg in message, for two strings
RECURSIVE StrContains(_, _)
StrContains(message, msg) ==
  IF Len(msg) > Len(message) THEN FALSE
  ELSE IF SubSeq(message, 1, Len(msg)) = msg THEN TRUE
  ELSE StrContains(Tail(message), msg)

\* for message in logs[level]: if msg in message: return True
RECURSIVE AnyContains(_, _)
AnyContains(msgs, msg) ==
  IF msgs = <<>> THEN FALSE
  ELSE IF StrContains(Head(msgs), msg) THEN TRUE
  ELSE AnyContains(Tail(msgs), msg)

Bool(b) == IF b THEN "True" ELSE "False"

\* faulty variant of msgInLogsResult: `partial` is ignored, only exact matches count
msgInLogsExactOnly(level, msg, partial) ==
  IF handler = None THEN "AttributeError"
  ELSE IF level \notin DOMAIN logMessages THEN "KeyError"
  ELSE Bool(Contains(logMessages[level], msg))

msgInLogsResult(level, msg, partial) ==
  IF handler = None THEN "AttributeError"
  ELSE IF level \notin DOMAIN logMessages THEN "KeyError"
  ELSE IF ~partial THEN Bool(Contains(logMessages[level], msg))
  ELSE Bool(AnyContains(logMessages[level], msg))

msgInLogs(level, msg, partial) ==
  /\ call' = Call("msgInLogs", level, msg, partial, nattach,
                  msgInLogsResult(level, msg, partial))
  /\ UNCHANGED <<heap, old, handler, ncap, logMessages, pre, nattach, paired,
                 captured, everLogged>>
  /\ UNCHANGED coreVars

\* ------------------------------------------- a log call through the logger
RECURSIVE Total(_, _)
Total(logs, ls) ==
  IF ls = {} THEN 0
  ELSE LET l == CHOOSE x \in ls : TRUE
       IN Len(logs[l]) + Total(logs, ls \ {l})

Captured == Total(logMessages, DOMAIN logMessages)

\* DictHandler.emit: append the message under its level
emit(logs, level, msg) ==
  IF level \in DOMAIN logs
    THEN [logs EXCEPT ![level] = Append(@, msg)]
    ELSE [l \in DOMAIN logs \cup {level} |->
            IF l = level THEN <<msg>> ELSE logs[l]]

\* the logger hands the record to every registered handler whose level admits it
Receives(level) ==
  \E i \in 1 .. Len(heap.logger) :
    /\ heap.logger[i].kind = "cap"
    /\ heap.logger[i].id = ncap
    /\ level >= heap.logger[i].level

log(level, msg) ==
  /\ Captured < MaxLog
  /\ logMessages' = IF Receives(level) THEN emit(logMessages, level, msg)
                    ELSE logMessages
  /\ captured' = IF handler # None /\ level >= handler.level
                   THEN Append(captured, <<level, msg>>)
                   ELSE captured
  /\ everLogged' = TRUE
  /\ call' = Call("log", level, msg, FALSE, nattach, "ok")
  /\ UNCHANGED <<heap, old, handler, ncap, pre, nattach, paired>>
  /\ UNCHANGED coreVars

\* -------------------------------------------------- TestCaseWithLogCapture
\* setUp: LoggerMixin.attach(self), level left at its default
setUp == attach(NOTSET)

\* tearDown: LoggerMixin.detach(self)
tearDown == detach

\* ---------------------------------------------------------- specification
NoCall == Call("init", 0, <<>>, FALSE, 0, "ok")

MixinInit ==
  /\ \E n \in 0 .. MaxPre :
       heap = [logger |-> [i \in 1 .. n |-> OldHandler(i)], own |-> <<>>]
  /\ old = "own"
  /\ handler = None
  /\ ncap = 0
  /\ logMessages = EmptyDict
  /\ pre = <<>>
  /\ nattach = 0
  /\ paired = TRUE
  /\ captured = <<>>
  /\ everLogged = FALSE
  /\ call = NoCall

CoreIdle ==
  /\ fn = "none"
  /\ arg = <<>>
  /\ ret = <<>>

Init == MixinInit /\ CoreIdle

Next ==
  \/ \E level \in AttachLevels : attach(level)
  \/ detach
  \/ \E level \in Levels, msg \in Queries, partial \in BOOLEAN :
       msgInLogs(level, msg, partial)
  \/ \E level \in Levels, msg \in Messages : log(level, msg)
  \/ setUp
  \/ tearDown

Spec == Init /\ [][Next]_vars

\* =========================================================== utils/core.py
MaxStr == 4      \* length of a string handed to str2vec / splitValsUncs
MaxLen == 4      \* length of a one-dimensional sequence
MaxRow == 2      \* row length of a two-row matrix
MaxVal == 3      \* entries are 1..MaxVal
MaxName == 4     \* length of a variable name

StrChars == {"1", "2", " ", "x"}
NameChars == {"A", "B", "a", "_", "1"}

SeqsUpTo(S, n) == UNION { [1 .. k -> S] : k \in 0 .. n }

isspace(c) == c = " "
isdigit(c) == c \in {"0", "1", "2", "3", "4", "5", "6", "7", "8", "9"}
Digit(c) == CASE c = "0" -> 0 [] c = "1" -> 1 [] c = "2" -> 2 [] c = "3" -> 3
              [] c = "4" -> 4 [] c = "5" -> 5 [] c = "6" -> 6 [] c = "7" -> 7
              [] c = "8" -> 8 [] c = "9" -> 9

\* s.split(): the maximal runs of non-whitespace characters, in order
RECURSIVE SplitWs(_, _)
SplitWs(s, cur) ==
  IF s = <<>> THEN (IF cur = <<>> THEN <<>> ELSE <<cur>>)
  ELSE IF isspace(Head(s))
         THEN (IF cur = <<>> THEN <<>> ELSE <<cur>>) \o SplitWs(Tail(s), <<>>)
         ELSE SplitWs(Tail(s), Append(cur, Head(s)))

split(s) == SplitWs(s, <<>>)

RECURSIVE ParseDigits(_, _)
ParseDigits(tok, acc) ==
  IF tok = <<>> THEN acc
  ELSE ParseDigits(Tail(tok), 10 * acc + Digit(Head(tok)))

\* the conversion numpy applies to one token: float(token) fails on a token
\* that is no number; str keeps the token
Convertible(tok, dtype) ==
  dtype = "str" \/ (tok # <<>> /\ \A i \in 1 .. Len(tok) : isdigit(tok[i]))

Convert(tok, dtype) ==
  IF dtype = "str" THEN StrElem(tok) ELSE NumElem(ParseDigits(tok, 0))

\* array(tokens, dtype=dtype)
array(toks, dtype) ==
  IF \A i \in 1 .. Len(toks) : Convertible(toks[i], dtype)
    THEN Array("none", [i \in 1 .. Len(toks) |-> Convert(toks[i], dtype)])
    ELSE Array("ValueError", <<>>)

str2vec(s, dtype) == array(split(s), dtype)

\* v[start::2] of a one-dimensional sequence (start counted from 0)
RECURSIVE Slice(_, _)
Slice(v, start) ==
  IF start >= Len(v) THEN <<>>
  ELSE <<v[start + 1]>> \o Slice(v, start + 2)

\* faulty variant of SliceLast: the slice starts one element late
SliceLastOffByOne(a, ndim, start) ==
  IF ndim = 1 THEN Slice(a, start + 1)
  ELSE [r \in 1 .. Len(a) |-> Slice(a[r], start + 1)]

\* iterable[..., start::2]: the slice is taken along the last axis
SliceLast(a, ndim, start) ==
  IF ndim = 1 THEN Slice(a, start)
  ELSE [r \in 1 .. Len(a) |-> Slice(a[r], start)]

\* faulty variant of splitValsUncs: an unpaired trailing value is dropped
splitValsUncsDropTrailing(iterable, copy) ==
  LET a == IF iterable.kind = "str" THEN str2vec(iterable.data, "float")
           ELSE Array("none", iterable.data)
      Trim(v) == SubSeq(v, 1, 2 * (Len(v) \div 2))
      d == IF iterable.ndim = 1 THEN Trim(a.data)
           ELSE [r \in 1 .. Len(a.data) |-> Trim(a.data[r])]
  IN IF a.err # "none"
       THEN Split(a.err, <<>>, <<>>, FALSE)
       ELSE Split("none", SliceLast(d, iterable.ndim, 0),
                  SliceLast(d, iterable.ndim, 1), ~copy)

splitValsUncs(iterable, copy) ==
  LET a == IF iterable.kind = "str" THEN str2vec(iterable.data, "float")
           ELSE Array("none", iterable.data)
  IN IF a.err # "none"
       THEN Split(a.err, <<>>, <<>>, FALSE)
       ELSE Split("none", SliceLast(a.data, iterable.ndim, 0),
                  SliceLast(a.data, iterable.ndim, 1), ~copy)

isupper(c) == c \in {"A", "B"}
upper(c) == CASE c = "a" -> "A" [] c = "b" -> "B" [] OTHER -> c
lower(c) == CASE c = "A" -> "a" [] c = "B" -> "b" [] OTHER -> c

strLower(s) == [i \in 1 .. Len(s) |-> lower(s[i])]

\* faulty variant of capitalize: the first character is not upper-cased
capitalizeNot(s) == [i \in 1 .. Len(s) |-> lower(s[i])]

\* item.capitalize(): first character upper-cased, the rest lower-cased
capitalize(s) ==
  [i \in 1 .. Len(s) |-> IF i = 1 THEN upper(s[i]) ELSE lower(s[i])]

\* variable.split('_'): every segment between underscores, empty ones too
RECURSIVE SplitOn(_, _, _)
SplitOn(s, sep, cur) ==
  IF s = <<>> THEN <<cur>>
  ELSE IF Head(s) = sep THEN <<cur>> \o SplitOn(Tail(s), sep, <<>>)
  ELSE SplitOn(Tail(s), sep, Append(cur, Head(s)))

RECURSIVE Join(_)
Join(items) == IF items = <<>> THEN <<>> ELSE Head(items) \o Join(Tail(items))

convertVariableName(variable) ==
  LET parts == SplitOn(variable, "_", <<>>)
      lowerSplits == [i \in 1 .. Len(parts) |-> strLower(parts[i])]
  IN IF Len(lowerSplits) = 1 THEN lowerSplits[1]
     ELSE lowerSplits[1] \o
          Join([i \in 1 .. Len(lowerSplits) - 1 |-> capitalize(lowerSplits[i + 1])])

RECURSIVE deconvertVariableName(_)
deconvertVariableName(variable) ==
  IF variable = <<>> THEN <<>>
  ELSE (IF isupper(Head(variable)) THEN <<"_", Head(variable)>>
        ELSE <<upper(Head(variable))>>) \o deconvertVariableName(Tail(variable))

\* ------------------------------------------------------------ core calls
Vals == 1 .. MaxVal
Vectors == SeqsUpTo(Vals, MaxLen)
Matrices == UNION { [1 .. 2 -> [1 .. k -> Vals]] : k \in 0 .. MaxRow }
Strings == SeqsUpTo(StrChars, MaxStr)
Names == SeqsUpTo(NameChars, MaxName)

\* each behaviour makes one call, from the state in which none was made
Idle == fn = "none"

callStr2vec(s, dtype) ==
  /\ Idle
  /\ fn' = "str2vec"
  /\ arg' = [dtype |-> dtype, text |-> s]
  /\ ret' = str2vec(s, dtype)
  /\ UNCHANGED mixinVars

callSplitValsUncs(iterable, copy) ==
  /\ Idle
  /\ fn' = "splitValsUncs"
  /\ arg' = [iterable |-> iterable, copy |-> copy]
  /\ ret' = splitValsUncs(iterable, copy)
  /\ UNCHANGED mixinVars

callConvertVariableName(variable) ==
  /\ Idle
  /\ fn' = "convertVariableName"
  /\ arg' = variable
  /\ ret' = convertVariableName(variable)
  /\ UNCHANGED mixinVars

callDeconvertVariableName(variable) ==
  /\ Idle
  /\ fn' = "deconvertVariableName"
  /\ arg' = variable
  /\ ret' = deconvertVariableName(variable)
  /\ UNCHANGED mixinVars

\* a caller hands the converted name back: deconvertVariableName(convertVariableName(x))
callRoundTrip ==
  /\ fn = "convertVariableName"
  /\ fn' = "roundTrip"
  /\ arg' = arg
  /\ ret' = deconvertVariableName(ret)
  /\ UNCHANGED mixinVars

\* every call is made from the idle state; the guard stands before the
\* quantifier so that the inputs are only enumerated there
CoreNext ==
  \/ Idle /\ \E s \in Strings, dtype \in {"float", "str"} : callStr2vec(s, dtype)
  \/ Idle /\ \E k \in {"list", "ndarray"}, v \in Vectors, copy \in BOOLEAN :
               callSplitValsUncs(Iterable(k, 1, v), copy)
  \/ Idle /\ \E k \in {"list", "ndarray"}, m \in Matrices, copy \in BOOLEAN :
               callSplitValsUncs(Iterable(k, 2, m), copy)
  \/ Idle /\ \E s \in Strings, copy \in BOOLEAN :
               callSplitValsUncs(Iterable("str", 1, s), copy)
  \/ Idle /\ \E v \in Names : callConvertVariableName(v)
  \/ Idle /\ \E v \in Names : callDeconvertVariableName(v)
  \/ callRoundTrip

CoreSpec == Init /\ [][CoreNext]_vars

\* ---------------------------------------------------------- core claims
SplitCall(parity) ==
  /\ fn = "splitValsUncs"
  /\ arg.iterable.kind \in {"list", "ndarray"}
  /\ arg.iterable.ndim = 1
  /\ Len(arg.iterable.data) % 2 = parity

\* C5: for an even-length sequence v, splitValsUncs(v) returns values and
\* uncertainties of length len(v)/2 with values[i] = v[2i] and
\* uncertainties[i] = v[2i+1]; an empty input gives two empty outputs.
C5_EvenSplit ==
  SplitCall(0) =>
    LET v == arg.iterable.data
        h == Len(v) \div 2
    IN /\ ret.err = "none"
       /\ Len(ret.vals) = h
       /\ Len(ret.uncs) = h
       /\ \A i \in 0 .. h - 1 :
            ret.vals[i + 1] = v[2 * i + 1] /\ ret.uncs[i + 1] = v[2 * i + 2]

C5_Witness ==
  /\ SplitCall(0)
  /\ arg.iterable.data = <<1, 2, 3, 1>>
  /\ ret.vals = <<1, 3>>
  /\ ret.uncs = <<2, 1>>

\* C6: str2vec(s, dtype) of a non-empty string without whitespace returns the one-element
\* sequence holding the token s itself, unconverted, and raises nothing.
C6_NoWhitespaceUnconverted ==
  (fn = "str2vec" /\ arg.text # <<>> /\ \A i \in 1 .. Len(arg.text) : ~isspace(arg.text[i])) =>
    /\ ret.err = "none"
    /\ ret.data = <<StrElem(arg.text)>>

\* a SERPENT_STYLE name: non-empty segments of upper-case letters joined by
\* single underscores
IsSerpentName(x) ==
  /\ Len(x) > 0
  /\ \A i \in 1 .. Len(x) : isupper(x[i]) \/ x[i] = "_"
  /\ x[1] # "_"
  /\ x[Len(x)] # "_"
  /\ \A i \in 1 .. Len(x) - 1 : ~(x[i] = "_" /\ x[i + 1] = "_")

\* C7: deconvertVariableName(convertVariableName(x)) = x for every name x made
\* of non-empty upper-case segments joined by single underscores.
C7_RoundTrip ==
  (fn = "roundTrip" /\ IsSerpentName(arg)) => ret = arg

C7_Witness ==
  /\ fn = "roundTrip"
  /\ arg = <<"A", "_", "B", "A">>
  /\ ret = arg

\* C8 as stated: for an odd-length v the trailing element is dropped, values
\* and uncertainties both having length (len(v)-1)/2.
C8_TrailingDropped ==
  SplitCall(1) =>
    LET v == arg.iterable.data
        h == (Len(v) - 1) \div 2
    IN /\ Len(ret.vals) = h
       /\ Len(ret.uncs) = h

\* C8 amended: for an odd-length v the trailing element is kept as the last
\* value: values has length (len(v)+1)/2 with values[i] = v[2i], and
\* uncertainties has length (len(v)-1)/2 with uncertainties[i] = v[2i+1].
C8_TrailingKept ==
  SplitCall(1) =>
    LET v == arg.iterable.data
        h == (Len(v) - 1) \div 2
    IN /\ ret.err = "none"
       /\ Len(ret.vals) = h + 1
       /\ Len(ret.uncs) = h
       /\ ret.vals[h + 1] = v[Len(v)]
       /\ \A i \in 0 .. h - 1 :
            ret.vals[i + 1] = v[2 * i + 1] /\ ret.uncs[i + 1] = v[2 * i + 2]

C8_Witness ==
  /\ SplitCall(1)
  /\ arg.iterable.data = <<1, 2, 3>>
  /\ ret.vals = <<1, 3>>
  /\ ret.uncs = <<2>>

\* ------------------------------------------------------- LoggerMixin claims
Attached == handler # None

\* the messages of `captured` logged at `level`, in logging order
RECURSIVE AtLevel(_, _)
AtLevel(cs, level) ==
  IF cs = <<>> THEN <<>>
  ELSE IF Head(cs)[1] = level THEN <<Head(cs)[2]>> \o AtLevel(Tail(cs), level)
  ELSE AtLevel(Tail(cs), level)

IsSubstring(m, s) ==
  \E a \in 1 .. Len(s) + 1 : \E b \in 0 .. Len(s) : SubSeq(s, a, b) = m

\* C1: after attach() from the detached state the logger's handlers are exactly
\* the one new capturing handler, whatever was registered before.
C1_AttachInstallsOnlyCapture ==
  (call.op = "attach" /\ call.depth = 0) => heap.logger = <<handler>>

\* C2: after correctly paired attach()/detach() cycles, once detach() returns
\* the logger's handlers are exactly those registered before the attach, and
\* the mixin is detached with handler = None and nothing remembered.
C2_DetachRestores ==
  (call.op = "detach" /\ call.result = "ok" /\ paired) =>
    /\ heap.logger = pre
    /\ handler = None
    /\ heap[old] = <<>>

\* C3: while detached, detach() and msgInLogs(level, msg, partial) fail with
\* AttributeError for every level, msg and partial, and the failing call
\* changes neither the logger's handlers nor the mixin's state.
C3_DetachedCallsFail ==
  [][(handler = None /\ call'.op \in {"detach", "msgInLogs"}) =>
       /\ call'.result = "AttributeError"
       /\ UNCHANGED <<heap, old, handler, ncap, logMessages>>]_vars

C3_Witness ==
  /\ call.op = "detach"
  /\ call.result = "AttributeError"
  /\ ncap > 0
  /\ Len(heap.logger) > 0

\* C4: while attached, msgInLogs fails with KeyError exactly when no message
\* was captured at that level since the attach; otherwise it returns, changing
\* nothing, whether msg equals (partial false) or is a substring of (partial
\* true) a message captured at that level.  Other levels do not matter.
C4_MsgInLogsResult ==
  [][(Attached /\ call'.op = "msgInLogs") =>
       LET ms == AtLevel(captured, call'.level)
           m == call'.msg
       IN /\ (call'.result = "KeyError") <=> (ms = <<>>)
          /\ (ms # <<>> /\ ~call'.partial) =>
               call'.result = Bool(\E i \in 1 .. Len(ms) : ms[i] = m)
          /\ (ms # <<>> /\ call'.partial) =>
               call'.result = Bool(\E i \in 1 .. Len(ms) : IsSubstring(m, ms[i]))
          /\ UNCHANGED <<heap, old, handler, ncap, logMessages>>]_vars

C4_Witness ==
  /\ Attached
  /\ call.op = "msgInLogs"
  /\ call.partial
  /\ call.msg = <<"b">>
  /\ call.result = "True"
  /\ \E i \in 1 .. Len(captured) : captured[i][1] # call.level

C10_DoubleAttachMisconfigures ==
  (call.op = "detach" /\ call.result = "ok" /\ call.depth >= 2) =>
    /\ heap.logger # pre
    /\ handler = None

====
